---------------------------- MODULE Spec2Model ----------------------------
(* Model of streamlit_app.py: the trial-balance classifier.                 *)
(*                                                                           *)
(* A Python str is modelled as a sequence of code points; each code point    *)
(* is a TLA+ string naming it.  The Japanese code points of the source are   *)
(* named in ASCII: "bun","rui" are the two kanji of the classification       *)
(* marker, "ri","yuu" the two kanji of the reason marker, and                *)
(* "ka_e","ka_ra","ka_bar" the three katakana of the error sentinel.         *)
EXTENDS Naturals, Sequences, FiniteSets, TLC

VARIABLES
    df,          \* column 'tekisuto' of the uploaded trial balance (l.109-110)
    stub,        \* the outcomes the external oracle may produce in this run
    pc,          \* position of the button handler (l.101-139)
    i,           \* 0-based index of the next row of the for loop (l.121)
    results,     \* the list `results` (l.118, l.123)
    cat_df,      \* the loaded classification table (l.115)
    cat_prompt,  \* the rendered classification block (l.116)
    request,     \* the oracle request in flight (l.64-71), or None
    calls,       \* history: the oracle invocations made, in order
    replies,     \* history: per processed row, the oracle outcome it got
    returned,    \* history: per return of classify_text, its row and value
    progress     \* last value given to progress_bar.progress (l.124)

vars == <<df, stub, pc, i, results, cat_df, cat_prompt, request, calls,
          replies, returned, progress>>

-----------------------------------------------------------------------------
(* Bounds of the model.                                                      *)

\* longest item column enumerated exhaustively
MaxItems == 3
\* most pieces concatenated into an enumerated oracle reply
MaxPieces == 5
\* how far beyond the row limit the long columns go
MaxOver == 2

-----------------------------------------------------------------------------
(* Values.                                                                   *)

\* A missing cell (NaN) and the object None.  Neither is a str: each is a
\* one-element sequence whose element is no code point of any str.
NaN == <<"float:nan">>
None == <<"object:None">>

SP == " "
NL == "\n"
COMMA == ","
COLON == ":"

\* the literal of l.75-76 and the literal of l.77-78
CLS == <<"bun", "rui", COLON>>
RSN == <<"ri", "yuu", COLON>>

\* the literal 'eraa' of l.84
ERR == <<"ka_e", "ka_ra", "ka_bar">>

\* the row limit of l.112
RowLimit == 500

-----------------------------------------------------------------------------
(* Python str operations used by the source.  Of the characters Python      *)
(* treats as whitespace and as line breaks, the strings of the model hold    *)
(* the space and the line feed only.                                         *)

\* s[a..b], empty when a > b
Slice(s, a, b) == IF a > b THEN <<>> ELSE SubSeq(s, a, b)

\* sep occurs in s at position k
OccursAt(s, sep, k) ==
    /\ k >= 1
    /\ k + Len(sep) - 1 <= Len(s)
    /\ \A j \in 1..Len(sep) : s[k + j - 1] = sep[j]

\* str.find, 1-based, 0 when absent
Find(s, sep) ==
    LET hits == {k \in 1..Len(s) : OccursAt(s, sep, k)}
    IN  IF hits = {} THEN 0 ELSE CHOOSE k \in hits : \A h \in hits : k <= h

\* `sep in s`
Contains(s, sep) == Find(s, sep) # 0

\* str.split(sep): every non-overlapping occurrence, left to right
RECURSIVE Split(_, _)
Split(s, sep) ==
    LET k == Find(s, sep)
    IN  IF k = 0 THEN <<s>>
        ELSE <<Slice(s, 1, k - 1)>> \o Split(Slice(s, k + Len(sep), Len(s)), sep)

IsSpace(c) == c \in {SP, NL}

\* str.strip()
RECURSIVE Strip(_)
Strip(s) ==
    IF s = <<>> THEN s
    ELSE IF IsSpace(s[1]) THEN Strip(Tail(s))
    ELSE IF IsSpace(s[Len(s)]) THEN Strip(Slice(s, 1, Len(s) - 1))
    ELSE s

\* str.splitlines(): no empty last line after a final line break
RECURSIVE splitlines(_)
splitlines(s) ==
    IF s = <<>> THEN <<>>
    ELSE LET k == Find(s, <<NL>>)
         IN  IF k = 0 THEN <<s>>
             ELSE <<Slice(s, 1, k - 1)>> \o splitlines(Slice(s, k + 1, Len(s)))

\* sep.join(xs)
RECURSIVE Join(_, _)
Join(xs, sep) ==
    IF xs = <<>> THEN <<>>
    ELSE IF Len(xs) = 1 THEN xs[1]
    ELSE xs[1] \o sep \o Join(Tail(xs), sep)


-----------------------------------------------------------------------------
(* The classification table: load_category_table, generate_category_prompt.  *)

\* the strings of the model's sheets and replies
S_a == <<"a">>
S_b == <<"b">>
S_x == <<"x">>
S_empty == <<>>

\* rows 6.. of the dictionary sheet, columns B:F; NaN is an empty cell
RawSheet ==
    << <<S_a, S_b, S_b, S_a, S_x>>,
       <<NaN, S_b, S_a, S_a, NaN>>,
       <<S_b, S_a, S_a, S_b, NaN>>,
       <<S_a, NaN, NaN, NaN, NaN>> >>

\* df[df['Lv1#'].notna()]
RECURSIVE DropMissingLv1(_)
DropMissingLv1(rows) ==
    IF rows = <<>> THEN <<>>
    ELSE IF rows[1][1] = NaN THEN DropMissingLv1(Tail(rows))
    ELSE <<rows[1]>> \o DropMissingLv1(Tail(rows))

\* fillna('') and astype(str) on one row
FillRow(row) == [c \in 1..Len(row) |-> IF row[c] = NaN THEN S_empty ELSE row[c]]

load_category_table(file) ==
    LET kept == DropMissingLv1(file)
    IN  [r \in 1..Len(kept) |-> FillRow(kept[r])]

\* the header literal of l.42, kept as one code point
HEADER == <<"header">>
INDENT == <<SP, SP, SP, SP>>

generate_category_prompt(table) ==
    LET rows == [r \in 1..Len(table) |-> INDENT \o Join(table[r], <<";">>)]
    IN  HEADER \o <<NL>> \o Join(rows, <<NL>>)

-----------------------------------------------------------------------------
(* classify_text.                                                            *)

\* the return value of l.48
EmptyResult == <<S_empty, S_empty, S_empty, S_empty, S_empty>>

\* a guard that forgets strip()
IsBlankNoStrip(text) == text = NaN \/ text = S_empty

\* the guard of l.47
IsBlank(text) == text = NaN \/ Strip(text) = <<>>

\* the f-string of l.50-62; each literal stretch of the template is kept as
\* one code point
Prompt(text, category_prompt) ==
    <<"template l.51-53">> \o Strip(text) \o <<NL, NL>> \o category_prompt
        \o <<"template l.56-62">>

\* classification and reason kept from the previous row instead of reset
ParseInitCarried ==
    [classification |-> S_empty,
     reason |-> IF results = <<>> THEN S_empty ELSE results[Len(results)][5]]

\* l.73
ParseInit == [classification |-> S_empty, reason |-> S_empty]

\* a loop body that keeps the first value found for each marker
ParseLineFirstWins(acc, line) ==
    IF Contains(line, CLS)
    THEN IF acc.classification # S_empty THEN acc
         ELSE [acc EXCEPT !.classification = Strip(Split(line, CLS)[2])]
    ELSE IF Contains(line, RSN)
    THEN IF acc.reason # S_empty THEN acc
         ELSE [acc EXCEPT !.reason = Strip(Split(line, RSN)[2])]
    ELSE acc

\* the body of the for loop, l.75-78
ParseLine(acc, line) ==
    IF Contains(line, CLS)
    THEN [acc EXCEPT !.classification = Strip(Split(line, CLS)[2])]
    ELSE IF Contains(line, RSN)
    THEN [acc EXCEPT !.reason = Strip(Split(line, RSN)[2])]
    ELSE acc

\* the for loop of l.74-78
ParseLines(acc, lines) ==
    LET after[n \in 0..Len(lines)] ==
            IF n = 0 THEN acc ELSE ParseLine(after[n - 1], lines[n])
    IN  after[Len(lines)]

\* l.79
Parts(classification) ==
    LET segs == Split(classification, <<COMMA>>)
    IN  [k \in 1..Len(segs) |-> Strip(segs[k])]

\* a length test that also wants every part non-empty
BuildResultAllFilled(acc) ==
    LET parts == Parts(acc.classification)
    IN  IF Len(parts) = 4 /\ \A n \in 1..4 : parts[n] # S_empty
        THEN <<parts[1], parts[2], parts[3], parts[4], acc.reason>>
        ELSE <<S_empty, S_empty, S_empty, S_empty, acc.reason>>

\* l.79-82
BuildResult(acc) ==
    LET parts == Parts(acc.classification)
    IN  IF Len(parts) = 4
        THEN <<parts[1], parts[2], parts[3], parts[4], acc.reason>>
        ELSE <<S_empty, S_empty, S_empty, S_empty, acc.reason>>

\* an except clause that drops the exception text
ErrorResultNoReason(msg) == <<ERR, S_empty, S_empty, S_empty, S_empty>>

\* l.84
ErrorResult(msg) == <<ERR, S_empty, S_empty, S_empty, msg>>

\* str(e) of the AttributeError raised by l.74 when the content is None
NoneTypeMsg == <<"'NoneType' object has no attribute 'splitlines'">>

\* l.72-84 for a response that arrived
ParseContent(content) ==
    IF content = None THEN ErrorResult(NoneTypeMsg)
    ELSE BuildResult(ParseLines(ParseInit, splitlines(content)))

-----------------------------------------------------------------------------
(* The oracle: openai.chat.completions.create, l.64-71.  An outcome is a     *)
(* response whose message content is a str or None, or a raised exception.   *)

Reply(content) == [kind |-> "reply", content |-> content, msg |-> S_empty]
Raise(msg) == [kind |-> "raise", content |-> None, msg |-> msg]
\* a row that made no oracle call
NoCall == [kind |-> "nocall", content |-> None, msg |-> S_empty]

\* str(e)
str(e) == e.msg

Timeout == <<"t", "i", "m", "e", "o", "u", "t">>

\* the four fields of the first row of the table, comma separated
FOUR == Join(<<S_a, S_b, S_b, S_a>>, <<COMMA>>)

\* the replies of the examples: a full answer, an answer of arity 2 whose
\* reason holds a colon, an answer with neither marker
ReplyFull == CLS \o <<SP>> \o FOUR \o <<NL>> \o RSN \o <<SP>> \o S_x
ReplyArity2 ==
    CLS \o <<SP>> \o S_a \o <<COMMA>> \o S_b \o <<NL>>
        \o RSN \o <<SP>> \o S_b \o <<COLON>> \o S_b
ReplyBare == S_a

BatchOutcomes ==
    {Reply(ReplyFull), Reply(ReplyArity2), Reply(ReplyBare), Reply(None),
     Raise(Timeout)}

\* the pieces the enumerated replies are concatenated from
Pieces == {CLS, RSN, <<COMMA>>, <<SP>>, <<NL>>, S_a, FOUR}

RECURSIVE Concats(_)
Concats(n) ==
    IF n = 0 THEN {<<>>}
    ELSE LET shorter == Concats(n - 1)
         IN  shorter \cup {c \o p : c \in shorter, p \in Pieces}

ParseOutcomes ==
    {Reply(c) : c \in Concats(MaxPieces)} \cup BatchOutcomes

-----------------------------------------------------------------------------
(* The uploaded column.                                                      *)

\* cells of column A
ItemTexts == {NaN, S_empty, <<SP>>, <<SP, "a">>, S_b}

RECURSIVE Columns(_)
Columns(n) ==
    IF n = 0 THEN {<<>>}
    ELSE LET shorter == Columns(n - 1)
         IN  shorter \cup {Append(c, t) : c \in {d \in shorter : Len(d) = n - 1},
                                         t \in ItemTexts}

\* a column of n rows repeating a pattern
LongColumn(n, pat) == [k \in 1..n |-> pat[((k - 1) % Len(pat)) + 1]]

LongPatterns == {<<S_b>>, <<S_b, NaN>>}

-----------------------------------------------------------------------------
(* The handler of the batch button, l.101-139.                               *)

\* a limit check that already refuses 500 rows
ExceedsLimitFrom500(n) == n >= RowLimit

\* l.112
ExceedsLimit(n) == n > RowLimit

\* a loop that puts the newest record first
CollectFront(list, result) == <<result>> \o list

\* l.123
Collect(list, result) == Append(list, result)

\* l.122-124 once classify_text has returned `result` for row i
Record(result, outcome) ==
    /\ results' = Collect(results, result)
    /\ returned' = Append(returned, [row |-> i, value |-> result])
    /\ replies' = Append(replies, outcome)
    /\ progress' = <<i + 1, Len(df)>>
    /\ i' = i + 1
    /\ pc' = "loop"
    /\ request' = None

\* l.72-82: the response arrived
OnResponse(o) == Record(ParseContent(o.content), o)

\* an except clause that retries the row once before giving up
OnExceptionRetry(e) ==
    IF Len(calls) < 2 \/ calls[Len(calls) - 1] # i
    THEN /\ pc' = "loop"
         /\ request' = None
         /\ UNCHANGED <<results, returned, replies, progress, i>>
    ELSE Record(ErrorResult(str(e)), e)

\* l.83-84: the call raised
OnException(e) == Record(ErrorResult(str(e)), e)

\* l.101-119: the click, up to the first iteration
Start ==
    /\ pc = "idle"
    /\ IF ExceedsLimit(Len(df))
       THEN /\ pc' = "rejected"
            /\ UNCHANGED <<cat_df, cat_prompt, results, progress>>
       ELSE /\ cat_df' = load_category_table(RawSheet)
            /\ cat_prompt' = generate_category_prompt(load_category_table(RawSheet))
            /\ results' = <<>>
            /\ progress' = <<0, Len(df)>>
            /\ pc' = "loop"
    /\ UNCHANGED <<df, stub, i, request, calls, replies, returned>>

\* l.121-124 with l.47-48: a blank row
ClassifyBlank ==
    /\ pc = "loop"
    /\ i < Len(df)
    /\ IsBlank(df[i + 1])
    /\ Record(EmptyResult, NoCall)
    /\ UNCHANGED <<df, stub, cat_df, cat_prompt, calls>>

\* l.121-122 with l.50-71: a non-blank row, up to the call
Invoke ==
    /\ pc = "loop"
    /\ i < Len(df)
    /\ ~IsBlank(df[i + 1])
    /\ request' = Prompt(df[i + 1], cat_prompt)
    /\ calls' = Append(calls, i)
    /\ pc' = "oracle"
    /\ UNCHANGED <<df, stub, i, results, cat_df, cat_prompt, replies,
                   returned, progress>>

OracleReturn ==
    /\ pc = "oracle"
    /\ \E o \in stub : o.kind = "reply" /\ OnResponse(o)
    /\ UNCHANGED <<df, stub, cat_df, cat_prompt, calls>>

OracleRaise ==
    /\ pc = "oracle"
    /\ \E e \in stub : e.kind = "raise" /\ OnException(e)
    /\ UNCHANGED <<df, stub, cat_df, cat_prompt, calls>>

\* the for loop of l.121 is exhausted; "done" is the point before l.126
Finish ==
    /\ pc = "loop"
    /\ i = Len(df)
    /\ pc' = "done"
    /\ UNCHANGED <<df, stub, i, results, cat_df, cat_prompt, request, calls,
                   replies, returned, progress>>

Next ==
    \/ Start
    \/ ClassifyBlank
    \/ Invoke
    \/ OracleReturn
    \/ OracleRaise
    \/ Finish

\* the state before the click, with the three inputs of l.102-107 present
BeforeClick ==
    /\ pc = "idle"
    /\ i = 0
    /\ results = <<>>
    /\ cat_df = None
    /\ cat_prompt = None
    /\ request = None
    /\ calls = <<>>
    /\ replies = <<>>
    /\ returned = <<>>
    /\ progress = <<0, 0>>

\* short columns, any outcome at every call
InitShort ==
    /\ df \in Columns(MaxItems)
    /\ stub = BatchOutcomes
    /\ BeforeClick

\* columns at and beyond the row limit, one outcome for the whole run
InitLong ==
    /\ \E d \in 0..MaxOver, pat \in LongPatterns :
           df = LongColumn(RowLimit + d, pat)
    /\ \E o \in BatchOutcomes : stub = {o}
    /\ BeforeClick

Init == InitShort \/ InitLong

Spec == Init /\ [][Next]_vars

\* one row and one outcome for the run: a non-blank row with any enumerated
\* outcome, or any row with an outcome of the examples
InitParse ==
    /\ \/ df = <<S_b>> /\ \E o \in ParseOutcomes : stub = {o}
       \/ df \in {<<t>> : t \in ItemTexts} /\ \E o \in BatchOutcomes : stub = {o}
    /\ BeforeClick

ParseSpec == InitParse /\ [][Next]_vars

-----------------------------------------------------------------------------
(* Vocabulary of the properties, stated without the operators of the model.  *)

\* a cell that is missing, empty or made of whitespace only
Blankish(text) == text = NaN \/ \A j \in 1..Len(text) : text[j] = SP

\* the rows processed so far, 1-based
Processed == 1..Len(results)

\* the error-sentinel record carrying reason `msg`
IsSentinel(r, msg) ==
    /\ r[1] = ERR
    /\ r[2] = S_empty /\ r[3] = S_empty /\ r[4] = S_empty
    /\ r[5] = msg

RECURSIVE CountNonBlank(_, _)
CountNonBlank(col, n) ==
    IF n = 0 THEN 0
    ELSE CountNonBlank(col, n - 1) + (IF Blankish(col[n]) THEN 0 ELSE 1)

-----------------------------------------------------------------------------
(* C1: for every column of at most 500 rows and every behaviour of the       *)
(* oracle, the batch loop terminates with exactly one record per row, the    *)
(* record at index k being the value classify_text returned for row k.       *)
(* Termination is stated by a variant: every step lowers Variant, and until  *)
(* the handler is done the guard of one of its steps holds.                  *)

\* the records made so far are those classify_text returned, row by row
AlignedSoFar ==
    /\ Len(returned) = Len(results)
    /\ \A k \in Processed :
           returned[k].row = k - 1 /\ results[k] = returned[k].value

Aligned == Len(results) = Len(df) /\ AlignedSoFar

\* steps left, at most
Variant ==
    CASE pc = "idle" -> 2 * Len(df) + 3
      [] pc = "loop" -> 2 * (Len(df) - i) + 1
      [] pc = "oracle" -> 2 * (Len(df) - i)
      [] OTHER -> 0

\* the guard of Start, of ClassifyBlank or Invoke or Finish, or of
\* OracleReturn or OracleRaise holds
CanStep ==
    \/ pc = "idle"
    \/ pc = "loop" /\ i <= Len(df)
    \/ pc = "oracle" /\ i < Len(df) /\ stub # {}

RunsToAlignedEnd ==
    Len(df) <= RowLimit =>
        /\ pc # "rejected"
        /\ AlignedSoFar
        /\ pc # "done" => CanStep
        /\ pc = "done" => Aligned

\* C1: a run on at most 500 rows can always step until done, every step
\* lowers Variant, and at done there is one record per row, the record at
\* index k being what classify_text returned for row k
C1_TerminatesAligned == [](RunsToAlignedEnd) /\ [][Variant' < Variant]_vars

C1_Witness ==
    /\ pc = "done"
    /\ Len(df) = 3
    /\ replies[1].kind = "raise"
    /\ replies[2].kind = "nocall"
    /\ replies[3] = Reply(ReplyArity2)
    /\ Aligned

-----------------------------------------------------------------------------
(* C2: a column of exactly 500 rows is processed and every row classified;   *)
(* a column of 501 or more rows is rejected before the table is loaded,      *)
(* with no oracle invocation and no result record.                           *)

\* C2: 500 rows are processed and all classified; 501 or more are rejected
\* before the table is loaded, with no oracle invocation and no record
C2_RowLimitBoundary ==
    /\ Len(df) > RowLimit =>
           /\ pc \in {"idle", "rejected"}
           /\ cat_df = None /\ cat_prompt = None
           /\ calls = <<>> /\ request = None
           /\ results = <<>> /\ returned = <<>>
    /\ Len(df) = RowLimit =>
           /\ pc # "rejected"
           /\ pc # "idle" => cat_df # None /\ cat_prompt # None
           /\ pc = "done" =>
                  /\ Len(results) = RowLimit
                  /\ Len(calls) = CountNonBlank(df, RowLimit)

C2_Witness ==
    /\ Len(df) = RowLimit
    /\ pc = "done"
    /\ Len(results) = RowLimit
    /\ Len(calls) = RowLimit

-----------------------------------------------------------------------------
(* C3: for a non-blank row whose oracle call, or the handling of whose       *)
(* response, raises, classify_text returns the error sentinel, three empty   *)
(* fields and the stringified exception; the loop goes on.                   *)

\* C3: a raised call, or a response whose handling raises, gives the
\* sentinel record with the stringified exception, and the loop goes on
C3_ExceptionBecomesSentinel ==
    /\ pc \in {"idle", "rejected", "loop", "oracle", "done"}
    /\ Len(replies) = Len(results)
    /\ \A k \in Processed :
           /\ replies[k].kind = "raise" =>
                  /\ ~Blankish(df[k])
                  /\ IsSentinel(results[k], replies[k].msg)
           /\ (replies[k].kind = "reply" /\ replies[k].content = None) =>
                  IsSentinel(results[k], NoneTypeMsg)

C3_Witness ==
    /\ pc = "done"
    /\ Len(df) = 2
    /\ replies[1] = Raise(Timeout)
    /\ results[1] = <<ERR, S_empty, S_empty, S_empty, Timeout>>
    /\ replies[2] = Reply(None)
    /\ results[2][1] = ERR

-----------------------------------------------------------------------------
(* C4: a row whose text is missing, empty or whitespace-only yields five     *)
(* empty strings, builds no request and makes no oracle invocation.          *)

\* C4: a missing, empty or whitespace-only row gives five empty strings,
\* builds no request and makes no oracle invocation
C4_BlankShortCircuits ==
    /\ \A k \in Processed :
           Blankish(df[k]) => results[k] = EmptyResult /\ replies[k] = NoCall
    /\ \A c \in 1..Len(calls) : ~Blankish(df[calls[c] + 1])
    /\ request # None => ~Blankish(df[i + 1])
    /\ pc = "done" => Len(calls) = CountNonBlank(df, Len(df))

C4_Witness ==
    /\ pc = "done"
    /\ df = <<NaN, <<SP>>, S_empty>>
    /\ results = <<EmptyResult, EmptyResult, EmptyResult>>
    /\ calls = <<>>

-----------------------------------------------------------------------------
(* C8: the record of a row depends only on that row's text and that row's    *)
(* oracle outcome; a malformed reply or an exception neither halts the loop  *)
(* nor changes the record of another row.                                    *)

\* the newest record agrees with every earlier row of equal text and outcome
NoCarryOver ==
    \A k \in Processed :
        LET n == Len(results)
        IN  (df[k] = df[n] /\ replies[k] = replies[n]) => results[k] = results[n]

\* a step keeps the records already made, and an outcome continues the loop
IsolatedStep ==
    /\ \A k \in Processed : Len(results') >= k /\ results'[k] = results[k]
    /\ pc = "oracle" => pc' = "loop" /\ Len(results') = Len(results) + 1

\* C8: a record depends only on its row's text and outcome; records made
\* are never changed, and every outcome continues the loop
C8_FaultIsolation == [](NoCarryOver) /\ [][IsolatedStep]_vars

C8_Witness ==
    /\ pc = "done"
    /\ df = <<S_b, S_b, S_b>>
    /\ replies = <<Reply(ReplyBare), Raise(Timeout), Reply(ReplyBare)>>
    /\ results[1] = results[3]

-----------------------------------------------------------------------------
(* C9: the oracle is invoked once per non-blank row, in index order, never   *)
(* twice for a row, and the call for a row starts only when every earlier    *)
(* row has its record; on completion the invocations number the non-blank    *)
(* rows.                                                                     *)

OncePerRowInOrder ==
    /\ \A c \in 1..Len(calls) : ~Blankish(df[calls[c] + 1])
    /\ \A c \in 1..(Len(calls) - 1) : calls[c] < calls[c + 1]
    /\ (pc = "oracle") <=> (request # None)
    /\ pc = "done" => Len(calls) = CountNonBlank(df, Len(df))

CallAfterEarlierRows ==
    calls' # calls =>
        /\ pc = "loop" /\ request = None
        /\ calls' = Append(calls, Len(results))
        /\ pc' = "oracle"

\* C9: one invocation per non-blank row, in index order, none repeated,
\* each started only when every earlier row has its record
C9_OneCallPerRow == [](OncePerRowInOrder) /\ [][CallAfterEarlierRows]_vars

C9_Witness ==
    /\ pc = "done"
    /\ df = <<S_b, NaN, <<SP, "a">> >>
    /\ replies[1].kind = "raise"
    /\ calls = <<0, 2>>

-----------------------------------------------------------------------------
(* Vocabulary of the properties about the reply grammar.                     *)

\* row k got a response whose content is a str
Answered(k) == replies[k].kind = "reply" /\ replies[k].content # None

\* the lines of a reply that contain a marker
LinesWith(lines, marker) == {n \in 1..Len(lines) : Contains(lines[n], marker)}

\* the lines the loop body reads a reason from: the second branch of l.75-78
ReasonLines(lines) == LinesWith(lines, RSN) \ LinesWith(lines, CLS)

\* how often a marker occurs in a line
Occurrences(line, marker) ==
    Cardinality({q \in 1..Len(line) : OccursAt(line, marker, q)})

\* the whole text of a line after the first occurrence of a marker, trimmed
TextAfter(line, marker) ==
    Strip(Slice(line, Find(line, marker) + Len(marker), Len(line)))

FirstOf(S) == CHOOSE n \in S : \A m \in S : n <= m
LastOf(S) == CHOOSE n \in S : \A m \in S : n >= m

TheOnly(S) == CHOOSE n \in S : TRUE

FieldsEmpty(r) ==
    r[1] = S_empty /\ r[2] = S_empty /\ r[3] = S_empty /\ r[4] = S_empty

FieldsFilled(r) ==
    r[1] # S_empty /\ r[2] # S_empty /\ r[3] # S_empty /\ r[4] # S_empty

\* the record built from classification line c and reason line r of `lines`
\* (0: no such line), each read as l.76 and l.78 read it
RecordFrom(lines, c, r) ==
    BuildResult([classification |->
                     IF c = 0 THEN S_empty ELSE Strip(Split(lines[c], CLS)[2]),
                 reason |->
                     IF r = 0 THEN S_empty ELSE Strip(Split(lines[r], RSN)[2])])

-----------------------------------------------------------------------------
(* C5: the four classification fields are populated from the                 *)
(* classification line if and only if the text after the marker splits on    *)
(* commas into exactly 4 segments that are all non-empty after trimming;     *)
(* otherwise all four are empty and the reason, if present, is returned.     *)
(* Stated for replies with at most one classification line, holding the      *)
(* marker once, and at most one reason line, holding its marker once.        *)

\* such a reply
Plain(lines) ==
    /\ Cardinality(LinesWith(lines, CLS)) <= 1
    /\ \A n \in LinesWith(lines, CLS) : Occurrences(lines[n], CLS) = 1
    /\ Cardinality(ReasonLines(lines)) <= 1
    /\ \A n \in ReasonLines(lines) : Occurrences(lines[n], RSN) = 1

\* the text of a line between its first marker and the next occurrence of
\* the marker, or the end of the line; trimmed
Between(line, marker) ==
    LET rest == Slice(line, Find(line, marker) + Len(marker), Len(line))
        next == Find(rest, marker)
    IN  Strip(IF next = 0 THEN rest ELSE Slice(rest, 1, next - 1))

\* the comma-separated segments of the last classification line
Segments(lines) ==
    IF LinesWith(lines, CLS) = {} THEN <<S_empty>>
    ELSE Split(Between(lines[LastOf(LinesWith(lines, CLS))], CLS), <<COMMA>>)

\* the reason of the last reason line
LastReason(lines) ==
    IF ReasonLines(lines) = {} THEN S_empty
    ELSE Between(lines[LastOf(ReasonLines(lines))], RSN)

\* the record a reply must give when `four` decides that it populates
PolicyHolds(r, lines, four) ==
    LET segs == Segments(lines)
    IN  IF four
        THEN r = <<Strip(segs[1]), Strip(segs[2]), Strip(segs[3]),
                   Strip(segs[4]), LastReason(lines)>>
        ELSE FieldsEmpty(r) /\ r[5] = LastReason(lines)

-----------------------------------------------------------------------------
(* C6: when several lines of a reply match the same marker, the first        *)
(* matching line is used and every later one ignored.                        *)

\* C6: the record is built from the first classification line and the
\* first reason line of the reply
C6_FirstMatchWins ==
    \A k \in Processed :
        Answered(k) =>
            LET lines == splitlines(replies[k].content)
                cl == LinesWith(lines, CLS)
                rl == ReasonLines(lines)
            IN  results[k] = RecordFrom(lines,
                                        IF cl = {} THEN 0 ELSE FirstOf(cl),
                                        IF rl = {} THEN 0 ELSE FirstOf(rl))

(* C6 as amended: when several lines of a reply match the same marker, the   *)
(* last matching line is used and every earlier one ignored; a line holding  *)
(* both markers counts as a classification line only.  Nothing accumulates.  *)

\* C6 as amended: the record is built from the last classification line
\* and the last reason line of the reply
C6_LastMatchWins ==
    \A k \in Processed :
        Answered(k) =>
            LET lines == splitlines(replies[k].content)
                cl == LinesWith(lines, CLS)
                rl == ReasonLines(lines)
            IN  results[k] = RecordFrom(lines,
                                        IF cl = {} THEN 0 ELSE LastOf(cl),
                                        IF rl = {} THEN 0 ELSE LastOf(rl))

C6_Witness ==
    /\ pc = "done"
    /\ Len(results) = 1
    /\ replies[1] = Reply(RSN \o S_a \o <<NL>> \o RSN \o <<COMMA>>)
    /\ results[1] = <<S_empty, S_empty, S_empty, S_empty, <<COMMA>> >>

-----------------------------------------------------------------------------
(* C7: every record of a batch other than the error-sentinel record has its  *)
(* four classification fields all empty, or all non-empty and equal to the   *)
(* four fields of some row of the table of the run.                          *)

\* C7: a record that is not the sentinel has four empty fields, or four
\* non-empty fields that are a row of the table
C7_TaxonomyLeaf ==
    \A k \in Processed :
        \/ IsSentinel(results[k], results[k][5])
        \/ FieldsEmpty(results[k])
        \/ /\ FieldsFilled(results[k])
           /\ \E row \in 1..Len(cat_df) :
                  \A f \in 1..4 : cat_df[row][f] = results[k][f]

-----------------------------------------------------------------------------
(* C10: for a reply in which a line contains the reason marker, the reason   *)
(* returned is the whole text of that line after the marker, trimmed,        *)
(* whatever else the line contains.  Stated for replies in which exactly     *)
(* one line contains the reason marker.                                      *)

\* C10: the reason is the whole trimmed text after the marker of the one
\* line that contains the reason marker
C10_ReasonWholeText ==
    \A k \in Processed :
        Answered(k) =>
            LET lines == splitlines(replies[k].content)
                rl == LinesWith(lines, RSN)
            IN  Cardinality(rl) = 1 =>
                    results[k][5] = TextAfter(lines[TheOnly(rl)], RSN)

=============================================================================
